---------------------------- MODULE Spec2Model ----------------------------
(***************************************************************************)
(* Campaign management service: the discount eligibility and allocation   *)
(* engine (app/crud.py, app/routers/discounts.py) over the campaigns,     *)
(* campaign_customers and discount_usages tables (app/models.py).         *)
(*                                                                         *)
(* Money is an integer number of mills (1/1000 of the currency unit), so  *)
(* that round(x, 2) is a real operation: 10 mills are one cent.  Time is  *)
(* an integer tick of the UTC clock; a calendar day is DayLen ticks.      *)
(* Every request handler runs in its own SQLAlchemy session (get_db), in  *)
(* a worker thread: a handler is a sequence of steps, one per group of    *)
(* SQL statements, and steps of different requests interleave.  An ORM    *)
(* object loaded into a session keeps the attribute values of its first   *)
(* load (the identity map) until the session commits.                     *)
(***************************************************************************)
EXTENDS Integers, Sequences, FiniteSets

\* ------------------------------------------------------------------ bounds
\* Ticks of the clock per calendar day, last tick of the clock, and the
\* number of ledger rows the model lets requests ask for.
DayLen == 2
MaxTime == 2
MaxUsages == 3

\* Python's None, for the nullable columns (every stored number is >= 0).
None == 0 - 1

\* Worker threads serving requests, rows of the customers table, and the ids
\* a request may carry (3 is the id of no customer, 9 the id of no campaign).
Procs == {1, 2}
Customers == {1, 2}
CustomerIdsAsked == {1, 2, 3}
CampaignIdsAsked == {1, 9}
\* The (cart_value, delivery_charge) pairs a request may carry, in mills.
Carts == { [cart_value |-> 20, delivery_charge |-> 0],
           [cart_value |-> 60, delivery_charge |-> 10] }

VARIABLES
  now,              \* datetime.utcnow()
  campaigns,        \* table campaigns: id -> row
  target_customers, \* table campaign_customers: campaign id -> set of customer ids
  discount_usages,  \* table discount_usages, in id order
  pc,               \* per worker: where its apply_discount request stands
  usage,            \* per worker: the DiscountUsageCreate body of its request
  session,          \* per worker: the Campaign object its session holds
  amount,           \* per worker: the local discount_amount
  result,           \* per worker: how its last request ended
  response          \* per worker: the AvailableDiscountsResponse it returned

vars == <<now, campaigns, target_customers, discount_usages,
          pc, usage, session, amount, result, response>>

\* ----------------------------------------------------------------- helpers
\* The elements of a finite set of integers as an ascending sequence: the
\* order in which an unordered query returns rows (by primary key).
RECURSIVE SortedSeq(_)
SortedSeq(S) ==
  IF S = {} THEN <<>>
  ELSE LET m == CHOOSE x \in S : \A y \in S : x <= y
       IN <<m>> \o SortedSeq(S \ {m})

\* Python truthiness of an Optional[float]: None and 0.0 are false.
Truthy(x) == x # None /\ x # 0

\* round(x, 2): to the nearest cent (10 mills), an exact half to the even
\* cent.  (On binary floats an apparent half such as 0.005 is decided by its
\* representation error; the amounts of the model avoid exact halves.)
Round2(x) ==
  LET r == x % 10
      lo == x - r
  IN IF r < 5 THEN lo
     ELSE IF r > 5 THEN lo + 10
     ELSE IF (lo \div 10) % 2 = 0 THEN lo ELSE lo + 10

\* ---------------------------------------------------------------- database
get_customer(customer_id) == customer_id \in Customers

get_campaign(campaign_id) == campaign_id \in DOMAIN campaigns

\* A status recompute that waits for the budget to be exceeded (> for >=).
status_when_budget_exceeded(campaign, t) ==
  IF campaign.end_date < t THEN "expired"
  ELSE IF campaign.used_budget > campaign.total_budget THEN "budget_exhausted"
  ELSE campaign.status

\* A status recompute that tests the budget before the end date.
status_budget_before_expiry(campaign, t) ==
  IF campaign.used_budget >= campaign.total_budget THEN "budget_exhausted"
  ELSE IF campaign.end_date < t THEN "expired"
  ELSE campaign.status

\* update_campaign_status: the status the lazy recompute leaves on `campaign`.
update_campaign_status(campaign, t) ==
  IF campaign.end_date < t THEN "expired"
  ELSE IF campaign.used_budget >= campaign.total_budget THEN "budget_exhausted"
  ELSE campaign.status

\* A count that ignores the day: every ledger row of (campaign, customer).
usage_count_of_all_days(campaign_id, customer_id, date) ==
  Cardinality({ i \in 1..Len(discount_usages) :
        /\ discount_usages[i].campaign_id = campaign_id
        /\ discount_usages[i].customer_id = customer_id })

\* get_customer_daily_usage_count: ledger rows of (campaign, customer) whose
\* used_at lies in [start_of_day, end_of_day) of `date`.
get_customer_daily_usage_count(campaign_id, customer_id, date) ==
  LET start_of_day == date - (date % DayLen)
      end_of_day == start_of_day + DayLen
  IN Cardinality({ i \in 1..Len(discount_usages) :
        /\ discount_usages[i].campaign_id = campaign_id
        /\ discount_usages[i].customer_id = customer_id
        /\ discount_usages[i].used_at >= start_of_day
        /\ discount_usages[i].used_at < end_of_day })

\* An amount that also depends on the ledger: the remaining budget is
\* lowered by the number of ledger rows.
amount_reading_ledger(campaign, value) ==
  LET base == IF Truthy(campaign.discount_percentage)
                THEN (value * campaign.discount_percentage) \div 100
              ELSE IF Truthy(campaign.discount_flat)
                THEN campaign.discount_flat
              ELSE 0
      cap1 == IF Truthy(campaign.max_discount_amount)
                 /\ base > campaign.max_discount_amount
                THEN campaign.max_discount_amount ELSE base
      remaining_budget == campaign.total_budget - campaign.used_budget
                            - 10 * Len(discount_usages)
      cap2 == IF cap1 > remaining_budget THEN remaining_budget ELSE cap1
      cap3 == IF cap2 > value THEN value ELSE cap2
  IN Round2(cap3)

\* calculate_discount_amount: base amount, then the caps in their order, then
\* the rounding.
calculate_discount_amount(campaign, value) ==
  LET base == IF Truthy(campaign.discount_percentage)
                THEN (value * campaign.discount_percentage) \div 100
              ELSE IF Truthy(campaign.discount_flat)
                THEN campaign.discount_flat
              ELSE 0
      cap1 == IF Truthy(campaign.max_discount_amount)
                 /\ base > campaign.max_discount_amount
                THEN campaign.max_discount_amount ELSE base
      remaining_budget == campaign.total_budget - campaign.used_budget
      cap2 == IF cap1 > remaining_budget THEN remaining_budget ELSE cap1
      cap3 == IF cap2 > value THEN value ELSE cap2
  IN Round2(cap3)

\* A WHERE clause that leaves out the status.
query_without_status(row, cart_value, discount_type, t) ==
  /\ row.start_date <= t
  /\ row.end_date >= t
  /\ row.used_budget < row.total_budget
  /\ row.min_cart_value <= cart_value
  /\ row.discount_type = discount_type

\* A WHERE clause that leaves out the minimum cart value.
query_without_min_cart(row, cart_value, discount_type, t) ==
  /\ row.status = "active"
  /\ row.start_date <= t
  /\ row.end_date >= t
  /\ row.used_budget < row.total_budget
  /\ row.discount_type = discount_type

\* The WHERE clause of get_eligible_campaigns, evaluated by the database on
\* the stored row.
eligible_query(row, cart_value, discount_type, t) ==
  /\ row.status = "active"
  /\ row.start_date <= t
  /\ row.end_date >= t
  /\ row.used_budget < row.total_budget
  /\ row.min_cart_value <= cart_value
  /\ row.discount_type = discount_type

\* A loop whose daily test lets a customer at the limit through (> for >=).
object_daily_limit_off_by_one(campaign, campaign_id, customer_id, t) ==
  /\ campaign.is_targeted => customer_id \in target_customers[campaign_id]
  /\ get_customer_daily_usage_count(campaign_id, customer_id, t)
        <= campaign.max_usage_per_customer_per_day
  /\ campaign.total_budget - campaign.used_budget > 0

\* A loop that never looks at the target list.
object_without_targeting(campaign, campaign_id, customer_id, t) ==
  /\ get_customer_daily_usage_count(campaign_id, customer_id, t)
        < campaign.max_usage_per_customer_per_day
  /\ campaign.total_budget - campaign.used_budget > 0

\* The loop of get_eligible_campaigns over one returned Campaign object:
\* targeting (target_customers is loaded lazily, here), daily usage,
\* remaining budget.
eligible_object(campaign, campaign_id, customer_id, t) ==
  /\ campaign.is_targeted => customer_id \in target_customers[campaign_id]
  /\ get_customer_daily_usage_count(campaign_id, customer_id, t)
        < campaign.max_usage_per_customer_per_day
  /\ campaign.total_budget - campaign.used_budget > 0

\* get_eligible_campaigns: the ids of the eligible campaigns, in query order.
\* `loaded` holds the Campaign objects the session already has (their
\* attributes are not refreshed by the query); other rows are loaded now.
get_eligible_campaigns(loaded, customer_id, cart_value, discount_type, t) ==
  LET object(id) == IF id \in DOMAIN loaded THEN loaded[id] ELSE campaigns[id]
  IN SortedSeq({ id \in DOMAIN campaigns :
        /\ eligible_query(campaigns[id], cart_value, discount_type, t)
        /\ eligible_object(object(id), id, customer_id, t) })

InSeq(x, s) == \E i \in 1..Len(s) : s[i] = x

\* ------------------------------------------------------------ construction
\* CampaignCreate bodies that pass the schema (app/schemas.py) and the checks
\* of the create route: a discount is configured, a targeted campaign names
\* at least one customer, every named customer exists.
CampaignCreates ==
  { c \in [ discount_type : {"cart", "delivery"},
            discount_percentage : {None, 50},
            discount_flat : {None, 20},
            start_date : {0},
            end_date : {MaxTime},
            total_budget : {26, 30},
            max_usage_per_customer_per_day : {1, 2},
            min_cart_value : {0, 40},
            max_discount_amount : {None},
            is_targeted : BOOLEAN,
            target_customer_ids : {{}, {1}} ] :
      /\ Truthy(c.discount_percentage) # Truthy(c.discount_flat)
      /\ c.end_date > c.start_date
      /\ c.is_targeted = (c.target_customer_ids # {})
      /\ c.target_customer_ids \subseteq Customers }

\* crud.create_campaign: the stored row (used_budget and status take the
\* column defaults) and the rows of campaign_customers.
create_campaign(c) ==
  [ discount_type |-> c.discount_type,
    discount_percentage |-> c.discount_percentage,
    discount_flat |-> c.discount_flat,
    start_date |-> c.start_date,
    end_date |-> c.end_date,
    total_budget |-> c.total_budget,
    used_budget |-> 0,
    max_usage_per_customer_per_day |-> c.max_usage_per_customer_per_day,
    min_cart_value |-> c.min_cart_value,
    max_discount_amount |-> c.max_discount_amount,
    is_targeted |-> c.is_targeted,
    status |-> "active" ]

create_campaign_targets(c) ==
  IF c.is_targeted /\ c.target_customer_ids # {} THEN c.target_customer_ids ELSE {}

\* A worker with no request, and a session holding no Campaign object.
NoUsage == [campaign_id |-> None, customer_id |-> None,
            cart_value |-> 0, delivery_charge |-> 0]
NoCampaign == [status |-> "none"]
NoDiscount == [campaign_id |-> None, discount_amount |-> None]
NoResponse == [cart_discounts |-> <<>>, delivery_discounts |-> <<>>,
               best_cart_discount |-> NoDiscount,
               best_delivery_discount |-> NoDiscount]

\* The service after the given campaigns were created, with no request yet.
Created(creates) ==
  /\ now = 0
  /\ \E c \in creates :
        /\ campaigns = [id \in {1} |-> create_campaign(c)]
        /\ target_customers = [id \in {1} |-> create_campaign_targets(c)]
  /\ discount_usages = <<>>
  /\ pc = [p \in Procs |-> "idle"]
  /\ usage = [p \in Procs |-> NoUsage]
  /\ session = [p \in Procs |-> NoCampaign]
  /\ amount = [p \in Procs |-> 0]
  /\ result = [p \in Procs |-> "none"]
  /\ response = [p \in Procs |-> NoResponse]

\* The campaigns of the concurrent runs: untargeted flat cart campaigns
\* with no minimum cart value.
ConcurrentCreates ==
  { c \in CampaignCreates :
      /\ c.discount_type = "cart"
      /\ Truthy(c.discount_flat)
      /\ c.min_cart_value = 0
      /\ ~c.is_targeted }

Init == Created(ConcurrentCreates)

InitSeq == Created(CampaignCreates)

\* ------------------------------------------------------------------ clock
Tick ==
  /\ now < MaxTime
  /\ now' = now + 1
  /\ UNCHANGED <<campaigns, target_customers, discount_usages,
                 pc, usage, session, amount, result, response>>

\* --------------------------------------------------------- apply_discount
\* Requests being served that may still add a ledger row.
InFlight == Cardinality({ p \in Procs : pc[p] \in {"loaded", "eligible"} })

Idle(p) == pc[p] \in {"idle", "done"}

\* A value that is the cart value whatever the campaign discounts.
value_always_cart(campaign, u) == u.cart_value

\* The value a campaign discounts: cart_value for a cart campaign,
\* delivery_charge otherwise.
value_for(campaign, u) ==
  IF campaign.discount_type = "cart" THEN u.cart_value ELSE u.delivery_charge

\* apply_discount, lines 112-120: the customer and the campaign are looked
\* up; the Campaign object enters the session.
apply_discount_lookup(p, u) ==
  /\ Idle(p)
  /\ Len(discount_usages) + InFlight < MaxUsages
  /\ usage' = [usage EXCEPT ![p] = u]
  /\ amount' = [amount EXCEPT ![p] = 0]
  /\ response' = [response EXCEPT ![p] = NoResponse]
  /\ IF ~get_customer(u.customer_id)
       THEN /\ result' = [result EXCEPT ![p] = "customer_not_found"]
            /\ pc' = [pc EXCEPT ![p] = "done"]
            /\ session' = [session EXCEPT ![p] = NoCampaign]
     ELSE IF ~get_campaign(u.campaign_id)
       THEN /\ result' = [result EXCEPT ![p] = "campaign_not_found"]
            /\ pc' = [pc EXCEPT ![p] = "done"]
            /\ session' = [session EXCEPT ![p] = NoCampaign]
     ELSE /\ result' = [result EXCEPT ![p] = "none"]
          /\ pc' = [pc EXCEPT ![p] = "loaded"]
          /\ session' = [session EXCEPT ![p] = campaigns[u.campaign_id]]
  /\ UNCHANGED <<now, campaigns, target_customers, discount_usages>>

\* An eligibility step that reserves the amount on the stored campaign before
\* it judges the request.
eligibility_reserving_first(p) ==
  /\ pc[p] = "loaded"
  /\ LET u == usage[p]
         campaign == session[p]
         value == value_for(campaign, u)
         eligible_campaigns ==
           get_eligible_campaigns([id \in {u.campaign_id} |-> campaign],
                                  u.customer_id, value, campaign.discount_type, now)
         discount_amount == calculate_discount_amount(campaign, value)
     IN /\ campaigns' = [campaigns EXCEPT
               ![u.campaign_id].used_budget = @ + discount_amount]
        /\ IF ~InSeq(u.campaign_id, eligible_campaigns)
             THEN /\ result' = [result EXCEPT ![p] = "not_eligible"]
                  /\ pc' = [pc EXCEPT ![p] = "done"]
                  /\ session' = [session EXCEPT ![p] = NoCampaign]
                  /\ UNCHANGED amount
           ELSE IF discount_amount <= 0
             THEN /\ result' = [result EXCEPT ![p] = "no_discount"]
                  /\ pc' = [pc EXCEPT ![p] = "done"]
                  /\ session' = [session EXCEPT ![p] = NoCampaign]
                  /\ UNCHANGED amount
           ELSE /\ amount' = [amount EXCEPT ![p] = discount_amount]
                /\ pc' = [pc EXCEPT ![p] = "eligible"]
                /\ UNCHANGED <<result, session>>
  /\ UNCHANGED <<now, target_customers, discount_usages, usage, response>>

\* apply_discount, lines 122-147: eligibility of the requested campaign, then
\* the amount, both on the Campaign object of the session.
apply_discount_eligibility(p) ==
  /\ pc[p] = "loaded"
  /\ LET u == usage[p]
         campaign == session[p]
         value == value_for(campaign, u)
         eligible_campaigns ==
           get_eligible_campaigns([id \in {u.campaign_id} |-> campaign],
                                  u.customer_id, value, campaign.discount_type, now)
         discount_amount == calculate_discount_amount(campaign, value)
     IN IF ~InSeq(u.campaign_id, eligible_campaigns)
          THEN /\ result' = [result EXCEPT ![p] = "not_eligible"]
               /\ pc' = [pc EXCEPT ![p] = "done"]
               /\ session' = [session EXCEPT ![p] = NoCampaign]
               /\ UNCHANGED amount
        ELSE IF discount_amount <= 0
          THEN /\ result' = [result EXCEPT ![p] = "no_discount"]
               /\ pc' = [pc EXCEPT ![p] = "done"]
               /\ session' = [session EXCEPT ![p] = NoCampaign]
               /\ UNCHANGED amount
        ELSE /\ amount' = [amount EXCEPT ![p] = discount_amount]
             /\ pc' = [pc EXCEPT ![p] = "eligible"]
             /\ UNCHANGED <<result, session>>
  /\ UNCHANGED <<now, campaigns, target_customers, discount_usages, usage, response>>

\* crud.create_discount_usage: the ledger row, and the campaign row as the
\* flush writes it.  used_budget is the session object's value plus the
\* amount; status is written only when the recompute changed it on the
\* object.  Both go out in the one transaction that update_campaign_status
\* commits.
create_discount_usage(p) ==
  LET u == usage[p]
      id == u.campaign_id
      db_usage == [campaign_id |-> id, customer_id |-> u.customer_id,
                   discount_amount |-> amount[p], cart_value |-> u.cart_value,
                   used_at |-> now]
      campaign == [session[p] EXCEPT !.used_budget = @ + amount[p]]
      status == update_campaign_status(campaign, now)
  IN /\ discount_usages' = Append(discount_usages, db_usage)
     /\ IF get_campaign(id)
          THEN campaigns' = [campaigns EXCEPT
                  ![id].used_budget = campaign.used_budget,
                  ![id].status = IF status # session[p].status THEN status ELSE @]
        ELSE UNCHANGED campaigns

\* apply_discount, lines 149-158.
apply_discount_record(p) ==
  /\ pc[p] = "eligible"
  /\ create_discount_usage(p)
  /\ result' = [result EXCEPT ![p] = "ok"]
  /\ pc' = [pc EXCEPT ![p] = "done"]
  /\ session' = [session EXCEPT ![p] = NoCampaign]
  /\ UNCHANGED <<now, target_customers, usage, amount, response>>

\* ------------------------------------------------- get_available_discounts
\* Entries that keep the campaigns whose amount is 0 (>= for >).
available_discounts_with_zero(ids, value) ==
  [ i \in 1..Len(ids) |->
      [campaign_id |-> ids[i],
       discount_amount |-> calculate_discount_amount(campaigns[ids[i]], value)] ]

\* The AvailableDiscount entries of a list of eligible campaigns: those with
\* a positive amount, in order.
RECURSIVE available_discounts(_, _)
available_discounts(ids, value) ==
  IF ids = <<>> THEN <<>>
  ELSE LET discount_amount == calculate_discount_amount(campaigns[Head(ids)], value)
           rest == available_discounts(Tail(ids), value)
       IN IF discount_amount > 0
            THEN <<[campaign_id |-> Head(ids), discount_amount |-> discount_amount]>> \o rest
          ELSE rest

\* A maximum that keeps the last entry of the largest amount.
last_best_discount(discounts) ==
  IF discounts = <<>> THEN NoDiscount
  ELSE discounts[CHOOSE i \in 1..Len(discounts) :
         /\ \A j \in 1..Len(discounts) :
               discounts[j].discount_amount <= discounts[i].discount_amount
         /\ \A j \in (i + 1)..Len(discounts) :
               discounts[j].discount_amount < discounts[i].discount_amount]

\* max(discounts, key=discount_amount): the first entry of the largest amount.
best_discount(discounts) ==
  IF discounts = <<>> THEN NoDiscount
  ELSE discounts[CHOOSE i \in 1..Len(discounts) :
         /\ \A j \in 1..Len(discounts) :
               discounts[j].discount_amount <= discounts[i].discount_amount
         /\ \A j \in 1..(i - 1) :
               discounts[j].discount_amount < discounts[i].discount_amount]

\* A preview that reserves the best cart discount it found.
preview_reserving_best(p, cart_params) ==
  /\ Idle(p)
  /\ usage' = [usage EXCEPT ![p] = cart_params]
  /\ amount' = [amount EXCEPT ![p] = 0]
  /\ pc' = [pc EXCEPT ![p] = "done"]
  /\ session' = [session EXCEPT ![p] = NoCampaign]
  /\ IF ~get_customer(cart_params.customer_id)
       THEN /\ result' = [result EXCEPT ![p] = "customer_not_found"]
            /\ response' = [response EXCEPT ![p] = NoResponse]
            /\ UNCHANGED campaigns
     ELSE LET cart_campaigns ==
                get_eligible_campaigns(<<>>, cart_params.customer_id,
                                       cart_params.cart_value, "cart", now)
              delivery_campaigns ==
                get_eligible_campaigns(<<>>, cart_params.customer_id,
                                       cart_params.delivery_charge, "delivery", now)
              cart_discounts ==
                available_discounts(cart_campaigns, cart_params.cart_value)
              delivery_discounts ==
                available_discounts(delivery_campaigns, cart_params.delivery_charge)
              best == best_discount(cart_discounts)
          IN /\ result' = [result EXCEPT ![p] = "available"]
             /\ response' = [response EXCEPT ![p] =
                   [cart_discounts |-> cart_discounts,
                    delivery_discounts |-> delivery_discounts,
                    best_cart_discount |-> best,
                    best_delivery_discount |-> best_discount(delivery_discounts)]]
             /\ IF best = NoDiscount THEN UNCHANGED campaigns
                ELSE campaigns' = [campaigns EXCEPT
                       ![best.campaign_id].used_budget = @ + best.discount_amount]
  /\ UNCHANGED <<now, target_customers, discount_usages>>

\* get_available_discounts: a read-only request in a fresh session.
get_available_discounts(p, cart_params) ==
  /\ Idle(p)
  /\ usage' = [usage EXCEPT ![p] = cart_params]
  /\ amount' = [amount EXCEPT ![p] = 0]
  /\ pc' = [pc EXCEPT ![p] = "done"]
  /\ session' = [session EXCEPT ![p] = NoCampaign]
  /\ IF ~get_customer(cart_params.customer_id)
       THEN /\ result' = [result EXCEPT ![p] = "customer_not_found"]
            /\ response' = [response EXCEPT ![p] = NoResponse]
     ELSE LET cart_campaigns ==
                get_eligible_campaigns(<<>>, cart_params.customer_id,
                                       cart_params.cart_value, "cart", now)
              delivery_campaigns ==
                get_eligible_campaigns(<<>>, cart_params.customer_id,
                                       cart_params.delivery_charge, "delivery", now)
              cart_discounts ==
                available_discounts(cart_campaigns, cart_params.cart_value)
              delivery_discounts ==
                available_discounts(delivery_campaigns, cart_params.delivery_charge)
          IN /\ result' = [result EXCEPT ![p] = "available"]
             /\ response' = [response EXCEPT ![p] =
                   [cart_discounts |-> cart_discounts,
                    delivery_discounts |-> delivery_discounts,
                    best_cart_discount |-> best_discount(cart_discounts),
                    best_delivery_discount |-> best_discount(delivery_discounts)]]
  /\ UNCHANGED <<now, campaigns, target_customers, discount_usages>>

\* The request bodies the clients send.
Usages == { [campaign_id |-> c, customer_id |-> k,
             cart_value |-> v.cart_value, delivery_charge |-> v.delivery_charge] :
            c \in CampaignIdsAsked, k \in CustomerIdsAsked, v \in Carts }

CartParameters == { [campaign_id |-> None, customer_id |-> k,
                     cart_value |-> v.cart_value, delivery_charge |-> v.delivery_charge] :
                    k \in CustomerIdsAsked, v \in Carts }

\* --------------------------------------------------------- update_campaign
\* CampaignUpdate bodies: the targeting fields, each given or left unset.
CampaignUpdates ==
  { u \in [ has_is_targeted : BOOLEAN, is_targeted : BOOLEAN,
            has_target_customer_ids : BOOLEAN,
            target_customer_ids : {{}, {1}} ] :
      /\ ~u.has_is_targeted => ~u.is_targeted
      /\ ~u.has_target_customer_ids => u.target_customer_ids = {} }

\* PUT /campaigns/{id}: the route's checks (a targeted update that carries a
\* list carries a non-empty list of existing customers; is_targeted = false
\* without a list clears the list), then crud.update_campaign, which sets
\* the given fields and replaces the target customers when a list is given.
update_campaign(id, u) ==
  LET targeted_with_list ==
        u.has_is_targeted /\ u.is_targeted /\ u.has_target_customer_ids
      cleared == u.has_is_targeted /\ ~u.is_targeted /\ ~u.has_target_customer_ids
  IN /\ get_campaign(id)
     /\ targeted_with_list =>
          u.target_customer_ids # {} /\ u.target_customer_ids \subseteq Customers
     /\ campaigns' = [campaigns EXCEPT
          ![id].is_targeted = IF u.has_is_targeted THEN u.is_targeted ELSE @]
     /\ target_customers' = [target_customers EXCEPT
          ![id] = IF cleared THEN {}
                  ELSE IF u.has_target_customer_ids
                    THEN u.target_customer_ids \cap Customers
                  ELSE @]
     /\ UNCHANGED <<now, discount_usages, pc, usage, session, amount, result, response>>

\* ------------------------------------------------------------ the service
\* Requests race on the budget and the ledger whatever the cart is: the
\* concurrent clients all send the larger cart.
ConcurrentUsages == { u \in Usages : u.cart_value = 60 }

ConcurrentCartParameters == { c \in CartParameters : c.cart_value = 60 }

Next ==
  \/ Tick
  \/ \E p \in Procs, u \in ConcurrentUsages : apply_discount_lookup(p, u)
  \/ \E p \in Procs : apply_discount_eligibility(p)
  \/ \E p \in Procs : apply_discount_record(p)
  \/ \E p \in Procs, c \in ConcurrentCartParameters : get_available_discounts(p, c)

Spec == Init /\ [][Next]_vars

\* One client that sends a request when the previous one was answered, and
\* an administrator who edits campaigns between requests.
SeqProcs == {1}

Quiet == \A p \in Procs : Idle(p)

SeqNext ==
  \/ Quiet /\ Tick
  \/ \E p \in SeqProcs, u \in Usages : Quiet /\ apply_discount_lookup(p, u)
  \/ \E p \in SeqProcs : apply_discount_eligibility(p)
  \/ \E p \in SeqProcs : apply_discount_record(p)
  \/ \E p \in SeqProcs, c \in CartParameters : Quiet /\ get_available_discounts(p, c)
  \/ \E id \in DOMAIN campaigns, u \in CampaignUpdates : Quiet /\ update_campaign(id, u)

SpecSeq == InitSeq /\ [][SeqNext]_vars

\* Campaigns as the create route lets them through: the route rejects a body
\* only when discount_percentage and discount_flat are both falsy, so a
\* percentage of 0 beside a flat amount, both at once, and a
\* max_discount_amount of 0 (the schema asks for >= 0) are all stored.
ConfigCreates ==
  { c \in [ discount_type : {"cart", "delivery"},
            discount_percentage : {None, 0, 50},
            discount_flat : {None, 20},
            start_date : {0},
            end_date : {MaxTime},
            total_budget : {30},
            max_usage_per_customer_per_day : {2},
            min_cart_value : {0, 40},
            max_discount_amount : {None, 0, 10},
            is_targeted : {FALSE},
            target_customer_ids : {{}} ] :
      /\ ~(~Truthy(c.discount_percentage) /\ ~Truthy(c.discount_flat))
      /\ c.end_date > c.start_date }

InitConfig == Created(ConfigCreates)

\* The carts sent to these campaigns; the last one has a delivery charge
\* above its cart value.
ConfigCarts ==
  Carts \cup { [cart_value |-> 20, delivery_charge |-> 40] }

ConfigUsages ==
  { [campaign_id |-> 1, customer_id |-> 1,
     cart_value |-> v.cart_value, delivery_charge |-> v.delivery_charge] :
    v \in ConfigCarts }

ConfigCartParameters ==
  { [campaign_id |-> None, customer_id |-> 1,
     cart_value |-> v.cart_value, delivery_charge |-> v.delivery_charge] :
    v \in ConfigCarts }

\* One client previewing and applying, one request after the other.
ConfigNext ==
  \/ Quiet /\ Tick
  \/ \E p \in SeqProcs, u \in ConfigUsages : Quiet /\ apply_discount_lookup(p, u)
  \/ \E p \in SeqProcs : apply_discount_eligibility(p)
  \/ \E p \in SeqProcs : apply_discount_record(p)
  \/ \E p \in SeqProcs, c \in ConfigCartParameters :
        Quiet /\ get_available_discounts(p, c)

SpecConfig == InitConfig /\ [][ConfigNext]_vars

\* ------------------------------------------------- PATCH campaign status
\* The values of CampaignStatus.
CampaignStatuses == {"active", "inactive", "expired", "budget_exhausted"}

\* PATCH /campaigns/{id}/status: crud.update_campaign with a body that sets
\* status alone; any status is accepted, whatever the dates and the budget.
patch_campaign_status(id, status) ==
  /\ get_campaign(id)
  /\ campaigns' = [campaigns EXCEPT ![id].status = status]
  /\ UNCHANGED <<now, target_customers, discount_usages,
                 pc, usage, session, amount, result, response>>

\* Campaigns with the validity windows the clock of the model can leave or
\* not yet have entered.
AdminCreates ==
  { c \in [ discount_type : {"cart"},
            discount_percentage : {None},
            discount_flat : {20},
            start_date : {0, 1},
            end_date : {1, MaxTime},
            total_budget : {30},
            max_usage_per_customer_per_day : {2},
            min_cart_value : {0},
            max_discount_amount : {None},
            is_targeted : {FALSE},
            target_customer_ids : {{}} ] :
      c.end_date > c.start_date }

InitAdmin == Created(AdminCreates)

\* One client, and an administrator who sets statuses between requests.
AdminNext ==
  \/ Quiet /\ Tick
  \/ \E p \in SeqProcs, u \in Usages : Quiet /\ apply_discount_lookup(p, u)
  \/ \E p \in SeqProcs : apply_discount_eligibility(p)
  \/ \E p \in SeqProcs : apply_discount_record(p)
  \/ \E p \in SeqProcs, c \in CartParameters :
        Quiet /\ get_available_discounts(p, c)
  \/ \E id \in DOMAIN campaigns, status \in CampaignStatuses :
        Quiet /\ patch_campaign_status(id, status)

SpecAdmin == InitAdmin /\ [][AdminNext]_vars

\* ------------------------------------------------------------- a catalog
\* Several campaigns at once, so that a preview has lists to choose from:
\* flat campaigns of either type, of two amounts.
CatalogIds == {1, 2, 3}

CatalogCreates ==
  { c \in [ discount_type : {"cart", "delivery"},
            discount_percentage : {None},
            discount_flat : {10, 20},
            start_date : {0},
            end_date : {MaxTime},
            total_budget : {30},
            max_usage_per_customer_per_day : {2},
            min_cart_value : {0},
            max_discount_amount : {None},
            is_targeted : {FALSE},
            target_customer_ids : {{}} ] :
      c.end_date > c.start_date }

\* The service after the campaigns of the catalog were created, in id order.
InitCatalog ==
  /\ now = 0
  /\ \E c \in [CatalogIds -> CatalogCreates] :
        /\ campaigns = [id \in CatalogIds |-> create_campaign(c[id])]
        /\ target_customers = [id \in CatalogIds |-> create_campaign_targets(c[id])]
  /\ discount_usages = <<>>
  /\ pc = [p \in Procs |-> "idle"]
  /\ usage = [p \in Procs |-> NoUsage]
  /\ session = [p \in Procs |-> NoCampaign]
  /\ amount = [p \in Procs |-> 0]
  /\ result = [p \in Procs |-> "none"]
  /\ response = [p \in Procs |-> NoResponse]

\* One client previewing the catalog and applying its first campaign.
CatalogNext ==
  \/ \E p \in SeqProcs, u \in ConfigUsages : Quiet /\ apply_discount_lookup(p, u)
  \/ \E p \in SeqProcs : apply_discount_eligibility(p)
  \/ \E p \in SeqProcs : apply_discount_record(p)
  \/ \E p \in SeqProcs, c \in ConfigCartParameters :
        Quiet /\ get_available_discounts(p, c)

SpecCatalog == InitCatalog /\ [][CatalogNext]_vars

\* ------------------------------------------------------ campaign routes
\* A delete that takes the campaign's ledger rows with it (cascade).
delete_campaign_cascading(id) ==
  /\ get_campaign(id)
  /\ campaigns' = [c \in DOMAIN campaigns \ {id} |-> campaigns[c]]
  /\ target_customers' = [c \in DOMAIN campaigns \ {id} |-> target_customers[c]]
  /\ discount_usages' = SelectSeq(discount_usages, LAMBDA r : r.campaign_id # id)
  /\ UNCHANGED <<now, pc, usage, session, amount, result, response>>

\* DELETE /campaigns/{id}: crud.delete_campaign.  The relationship
\* Campaign.discount_usages has no delete cascade, so the flush sets
\* campaign_id of the campaign's ledger rows to NULL; the column is NOT NULL,
\* the commit raises and the transaction is rolled back.  With no ledger row
\* the campaign and its campaign_customers rows are deleted.
delete_campaign(id) ==
  /\ get_campaign(id)
  /\ IF \E i \in 1..Len(discount_usages) : discount_usages[i].campaign_id = id
       THEN UNCHANGED <<campaigns, target_customers>>
     ELSE /\ campaigns' = [c \in DOMAIN campaigns \ {id} |-> campaigns[c]]
          /\ target_customers' =
               [c \in DOMAIN campaigns \ {id} |-> target_customers[c]]
  /\ UNCHANGED <<now, discount_usages, pc, usage, session, amount, result, response>>

\* POST /campaigns/ on an empty table: the new row takes id 1.
post_campaign(c) ==
  /\ DOMAIN campaigns = {}
  /\ campaigns' = [id \in {1} |-> create_campaign(c)]
  /\ target_customers' = [id \in {1} |-> create_campaign_targets(c)]
  /\ UNCHANGED <<now, discount_usages, pc, usage, session, amount, result, response>>

\* GET /campaigns/{id}: the campaign is looked up and update_campaign_status
\* recomputes its status and commits it; the answer carries that status.
get_campaign_by_id(p, campaign_id) ==
  /\ Idle(p)
  /\ usage' = [usage EXCEPT ![p] = [NoUsage EXCEPT !.campaign_id = campaign_id]]
  /\ amount' = [amount EXCEPT ![p] = 0]
  /\ response' = [response EXCEPT ![p] = NoResponse]
  /\ pc' = [pc EXCEPT ![p] = "done"]
  /\ session' = [session EXCEPT ![p] = NoCampaign]
  /\ IF ~get_campaign(campaign_id)
       THEN /\ result' = [result EXCEPT ![p] = "campaign_not_found"]
            /\ UNCHANGED campaigns
     ELSE /\ result' = [result EXCEPT ![p] = "campaign"]
          /\ campaigns' = [campaigns EXCEPT ![campaign_id].status =
                             update_campaign_status(campaigns[campaign_id], now)]
  /\ UNCHANGED <<now, target_customers, discount_usages>>

\* Campaigns for the campaign routes: a window that ends before the clock
\* does or with it, targeted or not.
CrudCreates ==
  { c \in [ discount_type : {"cart"},
            discount_percentage : {None},
            discount_flat : {20},
            start_date : {0},
            end_date : {1, MaxTime},
            total_budget : {30},
            max_usage_per_customer_per_day : {2},
            min_cart_value : {0},
            max_discount_amount : {None},
            is_targeted : BOOLEAN,
            target_customer_ids : {{}, {1}} ] :
      /\ c.end_date > c.start_date
      /\ c.is_targeted = (c.target_customer_ids # {}) }

InitCrud == Created(CrudCreates)

\* One client and an administrator, one request after the other, over every
\* campaign route and both discount routes.
CrudNext ==
  \/ Quiet /\ Tick
  \/ \E p \in SeqProcs, u \in ConfigUsages : Quiet /\ apply_discount_lookup(p, u)
  \/ \E p \in SeqProcs : apply_discount_eligibility(p)
  \/ \E p \in SeqProcs : apply_discount_record(p)
  \/ \E p \in SeqProcs, c \in ConfigCartParameters :
        Quiet /\ get_available_discounts(p, c)
  \/ \E p \in SeqProcs, id \in CampaignIdsAsked :
        Quiet /\ get_campaign_by_id(p, id)
  \/ \E c \in CrudCreates : Quiet /\ post_campaign(c)
  \/ \E id \in DOMAIN campaigns, u \in CampaignUpdates :
        Quiet /\ update_campaign(id, u)
  \/ \E id \in DOMAIN campaigns, status \in CampaignStatuses :
        Quiet /\ patch_campaign_status(id, status)
  \/ \E id \in DOMAIN campaigns : Quiet /\ delete_campaign(id)

SpecCrud == InitCrud /\ [][CrudNext]_vars

\* ------------------------------------------------------------ properties
Min(a, b) == IF a <= b THEN a ELSE b

\* The calendar day of a tick, and the ledger rows of a campaign and a
\* customer on a day.
Day(t) == t \div DayLen

RowsOn(id, k, d) ==
  { i \in 1..Len(discount_usages) :
      /\ discount_usages[i].campaign_id = id
      /\ discount_usages[i].customer_id = k
      /\ Day(discount_usages[i].used_at) = d }

\* The sum of discount_amount over the ledger rows of a campaign.
RECURSIVE SumFor(_, _)
SumFor(id, rows) ==
  IF rows = <<>> THEN 0
  ELSE (IF Head(rows).campaign_id = id THEN Head(rows).discount_amount ELSE 0)
       + SumFor(id, Tail(rows))

LedgerSum(id) == SumFor(id, discount_usages)

\* The steps of a worker, as actions: it decides eligibility, it commits
\* the ledger row, it answers a preview.
EligibilityStep(p) == pc[p] = "loaded" /\ pc'[p] # "loaded"

RecordStep(p) == pc[p] = "eligible" /\ pc'[p] = "done"

PreviewStep(p) ==
  /\ Idle(p)
  /\ result'[p] = "available"
  /\ <<usage[p], result[p], response[p]>> # <<usage'[p], result'[p], response'[p]>>

\* C1: a campaign's stored used_budget never exceeds its total_budget.
C1_UsedBudgetWithinTotal ==
  \A id \in DOMAIN campaigns :
     campaigns[id].used_budget <= campaigns[id].total_budget

\* C2: on a flat campaign whose whole-cent budget covers exactly K-1 full
\* grants for K racing workers, the committed ledger rows never sum to more
\* than total_budget.
C2_LedgerWithinBudget ==
  \A id \in DOMAIN campaigns :
     LET c == campaigns[id]
         K == Cardinality(Procs)
     IN ( /\ Truthy(c.discount_flat) /\ ~Truthy(c.discount_percentage)
          /\ Round2(c.total_budget) = c.total_budget
          /\ (K - 1) * c.discount_flat <= c.total_budget
          /\ c.total_budget < K * c.discount_flat )
        => LedgerSum(id) <= c.total_budget

\* C3: no lost update: every commit adds its amount to the used_budget the
\* previous commit left, that is, the value it computed its amount from is
\* the stored value at the time it commits.
C3_NoLostUpdate ==
  [][ \A p \in Procs :
        RecordStep(p) =>
          session[p].used_budget = campaigns[usage[p].campaign_id].used_budget
    ]_vars

\* C4: reservation and ledger entry are committed together: used_budget is
\* the sum of the campaign's ledger rows, in every state.
C4_UsedBudgetIsLedgerSum ==
  \A id \in DOMAIN campaigns : campaigns[id].used_budget = LedgerSum(id)

\* C5: no (campaign, customer, day) has more ledger rows than the
\* campaign's max_usage_per_customer_per_day.
C5_DailyCapHolds ==
  \A id \in DOMAIN campaigns : \A k \in Customers : \A d \in 0..Day(MaxTime) :
     Cardinality(RowsOn(id, k, d)) <= campaigns[id].max_usage_per_customer_per_day

\* The campaign and the customer a worker's request names.
AskedCampaign(p) == usage[p].campaign_id

AskedCustomer(p) == usage[p].customer_id

\* The number of ledger rows of the request's (campaign, customer) today.
RowsToday(p) ==
  Cardinality(RowsOn(AskedCampaign(p), AskedCustomer(p), Day(now)))

\* Every eligibility predicate but the daily limit holds for the request of
\* worker p on the stored campaign.
OtherPredicatesHold(p) ==
  LET id == AskedCampaign(p)
      c == campaigns[id]
  IN /\ eligible_query(c, value_for(c, usage[p]), c.discount_type, now)
     /\ c.is_targeted => AskedCustomer(p) \in target_customers[id]

\* The entries a preview response lists.
Listed(r) ==
  { r.cart_discounts[i] : i \in 1..Len(r.cart_discounts) }
    \cup { r.delivery_discounts[i] : i \in 1..Len(r.delivery_discounts) }
    \cup ({r.best_cart_discount, r.best_delivery_discount} \ {NoDiscount})

\* C6: a sequential apply by a customer who already has
\* max_usage_per_customer_per_day ledger rows for the campaign today is
\* rejected as not eligible, and changes neither the ledger nor the campaign.
C6_DailyLimitRejects ==
  [][ \A p \in Procs :
        ( /\ EligibilityStep(p)
          /\ RowsToday(p) >=
               campaigns[AskedCampaign(p)].max_usage_per_customer_per_day )
        => /\ result'[p] = "not_eligible"
           /\ pc'[p] = "done"
           /\ discount_usages' = discount_usages
           /\ campaigns' = campaigns
    ]_vars

\* C6 happens: a request that met every other predicate was rejected with
\* the customer at the daily limit.
C6_RejectedAtDailyLimit ==
  \E p \in Procs :
     /\ pc[p] = "done"
     /\ result[p] = "not_eligible"
     /\ AskedCampaign(p) \in DOMAIN campaigns
     /\ OtherPredicatesHold(p)
     /\ RowsToday(p) >= campaigns[AskedCampaign(p)].max_usage_per_customer_per_day

\* C7: only the rows of the current calendar day count: a request that meets
\* every other predicate and whose (campaign, customer) has fewer than
\* max_usage_per_customer_per_day rows today is not rejected as ineligible,
\* whatever the customer used on earlier days.
C7_DailyCountResets ==
  [][ \A p \in Procs :
        ( /\ EligibilityStep(p)
          /\ OtherPredicatesHold(p)
          /\ RowsToday(p) <
               campaigns[AskedCampaign(p)].max_usage_per_customer_per_day )
        => result'[p] # "not_eligible"
    ]_vars

\* C7 happens: a customer who was at the limit on day 0 was granted the
\* campaign again on day 1.
C7_GrantedNextDay ==
  \E p \in Procs :
     /\ pc[p] = "done"
     /\ result[p] = "ok"
     /\ Cardinality(RowsOn(AskedCampaign(p), AskedCustomer(p), 0)) >=
          campaigns[AskedCampaign(p)].max_usage_per_customer_per_day
     /\ RowsOn(AskedCampaign(p), AskedCustomer(p), 1) # {}

\* C8: a targeted campaign is refused to a customer outside its target set
\* (an empty set: to everybody), is never recorded for one, and a preview
\* never lists it for one.
C8_TargetingExclusive ==
  [][ \A p \in Procs :
        /\ ( /\ EligibilityStep(p)
             /\ campaigns[AskedCampaign(p)].is_targeted
             /\ AskedCustomer(p) \notin target_customers[AskedCampaign(p)] )
           => (result'[p] = "not_eligible" /\ pc'[p] = "done")
        /\ RecordStep(p) =>
             ( campaigns[AskedCampaign(p)].is_targeted
                 => AskedCustomer(p) \in target_customers[AskedCampaign(p)] )
        /\ PreviewStep(p) =>
             \A e \in Listed(response'[p]) :
                campaigns[e.campaign_id].is_targeted
                  => usage'[p].customer_id \in target_customers[e.campaign_id]
    ]_vars

\* C8 happens: a customer outside the target set of a targeted campaign was
\* refused a request that met every other predicate.
C8_RefusedOutsideTargets ==
  \E p \in Procs :
     LET id == AskedCampaign(p)
     IN /\ pc[p] = "done"
        /\ result[p] = "not_eligible"
        /\ id \in DOMAIN campaigns
        /\ campaigns[id].is_targeted
        /\ AskedCustomer(p) \notin target_customers[id]
        /\ eligible_query(campaigns[id], value_for(campaigns[id], usage[p]),
                          campaigns[id].discount_type, now)
        /\ RowsToday(p) < campaigns[id].max_usage_per_customer_per_day

\* The request of worker p is the case of C9: a flat campaign with no
\* max_discount_amount, a value of at least the flat amount, a customer
\* below the daily limit, every other predicate met.
FlatCase(p) ==
  LET id == AskedCampaign(p)
      c == campaigns[id]
  IN /\ ~Truthy(c.discount_percentage)
     /\ Truthy(c.discount_flat)
     /\ ~Truthy(c.max_discount_amount)
     /\ value_for(c, usage[p]) >= c.discount_flat
     /\ OtherPredicatesHold(p)
     /\ RowsToday(p) < c.max_usage_per_customer_per_day

\* A record step writes the amount the worker computed: one more ledger row
\* of that amount, and used_budget raised by it.
Grants(p) ==
  LET id == AskedCampaign(p)
  IN /\ Len(discount_usages') = Len(discount_usages) + 1
     /\ discount_usages'[Len(discount_usages')].discount_amount = amount[p]
     /\ campaigns'[id].used_budget = campaigns[id].used_budget + amount[p]

\* C9: every sequential apply in the flat case grants exactly
\* min(F, B - used_budget), and a record step writes the computed grant.
C9_FlatGrantIsMin ==
  [][ \A p \in Procs :
        /\ (EligibilityStep(p) /\ FlatCase(p)) =>
             LET c == campaigns[AskedCampaign(p)]
             IN /\ pc'[p] = "eligible"
                /\ amount'[p] = Min(c.discount_flat, c.total_budget - c.used_budget)
        /\ RecordStep(p) => Grants(p)
    ]_vars

\* C10: a campaign whose min_cart_value is above the value of the request
\* (the cart value for a cart campaign, the delivery charge for a delivery
\* campaign) is refused as not eligible, not as a zero discount, and a
\* preview does not list it.
C10_BelowMinCartExcluded ==
  [][ \A p \in Procs :
        /\ ( /\ EligibilityStep(p)
             /\ campaigns[AskedCampaign(p)].min_cart_value
                  > value_for(campaigns[AskedCampaign(p)], usage[p]) )
           => (result'[p] = "not_eligible" /\ pc'[p] = "done")
        /\ PreviewStep(p) =>
             \A e \in Listed(response'[p]) :
                campaigns[e.campaign_id].min_cart_value
                  <= value_for(campaigns[e.campaign_id], usage'[p])
    ]_vars

\* C10 happens: a cart campaign was refused to a cart below its
\* min_cart_value though every other predicate was met.
C10_RefusedBelowMinCart ==
  \E p \in Procs :
     LET id == AskedCampaign(p)
     IN /\ pc[p] = "done"
        /\ result[p] = "not_eligible"
        /\ id \in DOMAIN campaigns
        /\ campaigns[id].discount_type = "cart"
        /\ campaigns[id].min_cart_value > usage[p].cart_value
        /\ campaigns[id].status = "active"
        /\ campaigns[id].used_budget < campaigns[id].total_budget
        /\ campaigns[id].is_targeted => AskedCustomer(p) \in target_customers[id]
        /\ RowsToday(p) < campaigns[id].max_usage_per_customer_per_day

\* The entries a preview lists as cart discounts or as delivery discounts.
ListedIn(discounts) == { discounts[i] : i \in 1..Len(discounts) }

\* C11: a campaign of either type is accepted only when the cart value of
\* the request is >= its min_cart_value: an apply gets past eligibility, and
\* a preview lists a campaign, only then.
C11_CartValueMeetsMinimum ==
  [][ \A p \in Procs :
        /\ (EligibilityStep(p) /\ result'[p] # "not_eligible")
             => usage[p].cart_value >= campaigns[AskedCampaign(p)].min_cart_value
        /\ PreviewStep(p) =>
             \A e \in Listed(response'[p]) :
                usage'[p].cart_value >= campaigns[e.campaign_id].min_cart_value
    ]_vars

\* What a request may reserve or write: every campaign's used_budget and
\* status, and the ledger.
Allocation ==
  << [id \in DOMAIN campaigns |->
        <<campaigns[id].used_budget, campaigns[id].status>>],
     discount_usages >>

\* C12: a preview, whatever its input and whatever the state, leaves every
\* used_budget, every status and the ledger unchanged, and the only step of
\* the discount service that changes any of them is the record step of an
\* apply.
C12_PreviewReadOnly ==
  [][ /\ \A p \in Procs : PreviewStep(p) => Allocation' = Allocation
      /\ Allocation' # Allocation => \E p \in Procs : RecordStep(p)
    ]_vars

\* C12 happens: a preview listed a discount on a campaign part of whose
\* budget is used, and used_budget is still what the ledger adds up to.
C12_PreviewedNothingReserved ==
  \E p \in Procs :
     /\ pc[p] = "done"
     /\ result[p] = "available"
     /\ response[p].best_cart_discount # NoDiscount
     /\ discount_usages # <<>>
     /\ LET id == response[p].best_cart_discount.campaign_id
        IN /\ campaigns[id].status = "active"
           /\ campaigns[id].used_budget = LedgerSum(id)

\* The ways an apply fails, and the steps of a worker that end its request
\* in one of them or look the campaign up.
Failures ==
  {"customer_not_found", "campaign_not_found", "not_eligible", "no_discount"}

FailureStep(p) ==
  /\ pc'[p] = "done"
  /\ result'[p] \in Failures
  /\ <<pc[p], usage[p], result[p]>> # <<pc'[p], usage'[p], result'[p]>>

LookupStep(p) == Idle(p) /\ pc'[p] = "loaded"

\* C13: an apply that ends in a failure has left used_budget, status and the
\* ledger as they were: neither its lookup step nor the step that fails
\* changes them, and when it fails the stored campaign is still the one its
\* lookup loaded.
C13_FailureHasNoEffect ==
  [][ \A p \in Procs :
        /\ (LookupStep(p) \/ FailureStep(p)) => Allocation' = Allocation
        /\ (EligibilityStep(p) /\ FailureStep(p)) =>
             campaigns'[AskedCampaign(p)] = session[p]
    ]_vars

\* C13 happens: an apply was rejected on a campaign that had granted
\* before, and used_budget is still the sum of the ledger.
C13_FailedAfterGrant ==
  \E p \in Procs :
     /\ pc[p] = "done"
     /\ result[p] \in {"not_eligible", "no_discount"}
     /\ AskedCampaign(p) \in DOMAIN campaigns
     /\ discount_usages # <<>>
     /\ campaigns[AskedCampaign(p)].used_budget = LedgerSum(AskedCampaign(p))
     /\ campaigns[AskedCampaign(p)].used_budget > 0

\* A stored campaign is usable at the time of evaluation: its status is
\* active, its end_date has not passed, and budget is left.
Usable(id) ==
  /\ campaigns[id].status = "active"
  /\ ~(campaigns[id].end_date < now)
  /\ campaigns[id].used_budget < campaigns[id].total_budget

\* C14: an apply gets past eligibility, writes its ledger row, and a preview
\* lists a campaign, only when the stored campaign is active, its end_date
\* has not passed and used_budget < total_budget at that time, whatever the
\* status was set to by hand.
C14_OnlyActiveEligible ==
  [][ \A p \in Procs :
        /\ (EligibilityStep(p) /\ result'[p] # "not_eligible")
             => Usable(AskedCampaign(p))
        /\ RecordStep(p) => Usable(AskedCampaign(p))
        /\ PreviewStep(p) =>
             \A e \in Listed(response'[p]) : Usable(e.campaign_id)
    ]_vars

\* C14 happens: an exhausted campaign whose stored status was set back to
\* active was refused.
C14_RefusedThoughActive ==
  \E p \in Procs :
     /\ pc[p] = "done"
     /\ result[p] = "not_eligible"
     /\ AskedCampaign(p) \in DOMAIN campaigns
     /\ campaigns[AskedCampaign(p)].status = "active"
     /\ campaigns[AskedCampaign(p)].used_budget
          >= campaigns[AskedCampaign(p)].total_budget
     /\ campaigns[AskedCampaign(p)].start_date <= now
     /\ now <= campaigns[AskedCampaign(p)].end_date

\* The validity window of a stored campaign, closed at start_date and open
\* at end_date.
InWindow(id) ==
  campaigns[id].start_date <= now /\ now < campaigns[id].end_date

\* C15: an apply gets past eligibility, and a preview lists a campaign, only
\* when start_date <= now < end_date.
C15_WindowOpenAtEnd ==
  [][ \A p \in Procs :
        /\ (EligibilityStep(p) /\ result'[p] # "not_eligible")
             => InWindow(AskedCampaign(p))
        /\ PreviewStep(p) =>
             \A e \in Listed(response'[p]) : InWindow(e.campaign_id)
    ]_vars

\* C16: on a campaign with max_discount_amount configured (0 included), no
\* amount an apply computes and no amount a preview lists exceeds it.
C16_MaxDiscountCaps ==
  [][ \A p \in Procs :
        /\ ( /\ EligibilityStep(p)
             /\ pc'[p] = "eligible"
             /\ campaigns[AskedCampaign(p)].max_discount_amount # None )
           => amount'[p] <= campaigns[AskedCampaign(p)].max_discount_amount
        /\ PreviewStep(p) =>
             \A e \in Listed(response'[p]) :
                campaigns[e.campaign_id].max_discount_amount # None
                  => e.discount_amount
                       <= campaigns[e.campaign_id].max_discount_amount
    ]_vars

\* The base amount by precedence: the percentage of the value when
\* discount_percentage is set (0 included), else discount_flat when that is
\* set, else 0.
BaseAmount(c, value) ==
  IF c.discount_percentage # None
    THEN (value * c.discount_percentage) \div 100
  ELSE IF c.discount_flat # None THEN c.discount_flat
  ELSE 0

\* The amount a base amount gives on a campaign with no max_discount_amount:
\* capped to the remaining budget and to the value, to the cent.
AmountOfBase(c, value) ==
  Round2(Min(Min(BaseAmount(c, value), c.total_budget - c.used_budget), value))

\* C17: on a campaign with no max_discount_amount, the amount of an eligible
\* apply and every amount a preview lists come from the base amount of the
\* precedence rule; an amount of 0 is a zero discount and is not listed.
C17_BasePrecedence ==
  [][ \A p \in Procs :
        /\ ( /\ EligibilityStep(p)
             /\ result'[p] # "not_eligible"
             /\ campaigns[AskedCampaign(p)].max_discount_amount = None )
           => LET c == campaigns[AskedCampaign(p)]
                  a == AmountOfBase(c, value_for(c, usage[p]))
              IN IF a > 0 THEN pc'[p] = "eligible" /\ amount'[p] = a
                 ELSE result'[p] = "no_discount"
        /\ PreviewStep(p) =>
             \A e \in Listed(response'[p]) :
                LET c == campaigns[e.campaign_id]
                IN c.max_discount_amount = None
                     => e.discount_amount = AmountOfBase(c, value_for(c, usage'[p]))
    ]_vars

\* C18: every amount an apply computes and a preview lists is >= 0, at most
\* the value it discounts, and at most the remaining budget of the campaign
\* when that is positive.
C18_AmountWithinCaps ==
  [][ \A p \in Procs :
        /\ (EligibilityStep(p) /\ pc'[p] = "eligible") =>
             LET c == campaigns[AskedCampaign(p)]
             IN /\ amount'[p] >= 0
                /\ amount'[p] <= value_for(c, usage[p])
                /\ c.total_budget - c.used_budget > 0
                     => amount'[p] <= c.total_budget - c.used_budget
        /\ PreviewStep(p) =>
             \A e \in Listed(response'[p]) :
                LET c == campaigns[e.campaign_id]
                IN /\ e.discount_amount >= 0
                   /\ e.discount_amount <= value_for(c, usage'[p])
                   /\ c.total_budget - c.used_budget > 0
                        => e.discount_amount <= c.total_budget - c.used_budget
    ]_vars

\* Campaign states and values to compute on: every discount configuration
\* the create route stores, with 20 of its budget of 30 used.
ComputeStates ==
  { [create_campaign(c) EXCEPT !.used_budget = 20] :
      c \in { x \in ConfigCreates :
                x.discount_type = "cart" /\ x.min_cart_value = 0 } }

ComputeValues == {20, 60}

IsBestOf(best, discounts) ==
  /\ (best = NoDiscount) <=> (discounts = <<>>)
  /\ discounts # <<>> =>
       \E i \in 1..Len(discounts) :
          /\ discounts[i] = best
          /\ \A j \in 1..Len(discounts) :
                discounts[j].discount_amount <= best.discount_amount
          /\ \A j \in 1..(i - 1) :
                discounts[j].discount_amount < best.discount_amount

\* C20: in every preview response the best cart discount is the best of
\* cart_discounts and the best delivery discount the best of
\* delivery_discounts.
C20_BestIsFirstMaximum ==
  \A p \in Procs :
     result[p] = "available" =>
       /\ IsBestOf(response[p].best_cart_discount, response[p].cart_discounts)
       /\ IsBestOf(response[p].best_delivery_discount,
                   response[p].delivery_discounts)

\* C20 happens: a preview listed three cart discounts, a smaller one and
\* then two equal larger ones, chose the first of the two, and had no
\* delivery discount to choose.
C20_TieGoesToFirst ==
  \E p \in Procs :
     LET r == response[p]
     IN /\ result[p] = "available"
        /\ Len(r.cart_discounts) = 3
        /\ r.cart_discounts[1].discount_amount < r.cart_discounts[2].discount_amount
        /\ r.cart_discounts[2].discount_amount = r.cart_discounts[3].discount_amount
        /\ r.best_cart_discount = r.cart_discounts[2]
        /\ r.delivery_discounts = <<>>
        /\ r.best_delivery_discount = NoDiscount

\* The ledger row a record step appends.
NewRow == discount_usages'[Len(discount_usages')]

\* C21: every ledger row stores the value its discount was computed against,
\* the cart value for a cart campaign and the delivery charge for a delivery
\* campaign, and its discount_amount is at most that stored value.
C21_RowStoresDiscountedValue ==
  [][ \A p \in Procs :
        RecordStep(p) =>
          /\ NewRow.cart_value
               = value_for(campaigns[AskedCampaign(p)], usage[p])
          /\ NewRow.discount_amount <= NewRow.cart_value
    ]_vars

\* C22: every successful apply appends exactly one ledger row, for the
\* requested campaign and customer, whose discount_amount is the amount
\* computed on the stored campaign against the value of the request, and
\* raises the stored used_budget by exactly that amount; no other step
\* appends a row.
C22_ApplyRecordsItsAmount ==
  [][ /\ \A p \in Procs :
           RecordStep(p) =>
             LET c == campaigns[AskedCampaign(p)]
             IN /\ Grants(p)
                /\ NewRow.campaign_id = AskedCampaign(p)
                /\ NewRow.customer_id = AskedCustomer(p)
                /\ NewRow.discount_amount
                     = calculate_discount_amount(c, value_for(c, usage[p]))
      /\ discount_usages' # discount_usages => \E p \in Procs : RecordStep(p)
    ]_vars

\* C23: an apply that meets every eligibility predicate but computes an
\* amount <= 0 is rejected as a zero discount, not as ineligible, and
\* records nothing; no ledger row and no preview entry has an amount <= 0.
C23_ZeroDiscountRejected ==
  [][ \A p \in Procs :
        /\ ( /\ EligibilityStep(p)
             /\ OtherPredicatesHold(p)
             /\ RowsToday(p)
                  < campaigns[AskedCampaign(p)].max_usage_per_customer_per_day
             /\ calculate_discount_amount(
                  campaigns[AskedCampaign(p)],
                  value_for(campaigns[AskedCampaign(p)], usage[p])) <= 0 )
           => /\ result'[p] = "no_discount"
              /\ pc'[p] = "done"
              /\ Allocation' = Allocation
        /\ RecordStep(p) => NewRow.discount_amount > 0
        /\ PreviewStep(p) =>
             \A e \in Listed(response'[p]) : e.discount_amount > 0
    ]_vars

\* C23 happens: an apply that met every eligibility predicate was rejected
\* as a zero discount.
C23_RejectedAsZeroDiscount ==
  \E p \in Procs :
     /\ pc[p] = "done"
     /\ result[p] = "no_discount"
     /\ AskedCampaign(p) \in DOMAIN campaigns
     /\ OtherPredicatesHold(p)
     /\ RowsToday(p) < campaigns[AskedCampaign(p)].max_usage_per_customer_per_day

\* C24: the ledger is append-only: whatever the operation (apply, preview,
\* campaign create, update, delete, status change or recompute), every row
\* already written stays in its place with its fields unchanged.
C24_LedgerAppendOnly ==
  [][ /\ Len(discount_usages') >= Len(discount_usages)
      /\ \A i \in 1..Len(discount_usages) :
            discount_usages'[i] = discount_usages[i]
    ]_vars

\* C24 happens: with two rows of earlier ticks in the ledger, the campaign
\* they belong to was observed and recomputed to expired, and the rows are
\* there.
C24_RowsOutliveRecompute ==
  \E p \in Procs :
     /\ result[p] = "campaign"
     /\ Len(discount_usages) = 2
     /\ \A i \in 1..2 :
           /\ discount_usages[i].campaign_id = AskedCampaign(p)
           /\ discount_usages[i].used_at < now
     /\ AskedCampaign(p) \in DOMAIN campaigns
     /\ campaigns[AskedCampaign(p)].status = "expired"

\* A worker answers GET /campaigns/{id} for an existing campaign.
ObserveStep(p) ==
  /\ Idle(p)
  /\ result'[p] = "campaign"
  /\ <<usage[p], result[p]>> # <<usage'[p], result'[p]>>

\* The status an observation has to persist.
RecomputedStatus(c) ==
  IF c.end_date < now THEN "expired"
  ELSE IF c.used_budget >= c.total_budget THEN "budget_exhausted"
  ELSE c.status

\* C26: observing a campaign by id persists its recomputed status: expired
\* when end_date has passed (also when the budget is exhausted too), else
\* budget_exhausted when used_budget >= total_budget, else the status it
\* had; nothing else of the campaign changes.
C26_ObservationPersistsStatus ==
  [][ \A p \in Procs :
        ObserveStep(p) =>
          LET id == usage'[p].campaign_id
          IN campaigns' = [campaigns EXCEPT
                             ![id].status = RecomputedStatus(campaigns[id])]
    ]_vars

\* C26 happens: a campaign past its end_date with its budget used up was
\* observed, and its status is expired.
C26_ExpiredBeforeExhausted ==
  \E p \in Procs :
     /\ pc[p] = "done"
     /\ result[p] = "campaign"
     /\ AskedCampaign(p) \in DOMAIN campaigns
     /\ campaigns[AskedCampaign(p)].end_date < now
     /\ campaigns[AskedCampaign(p)].used_budget
          >= campaigns[AskedCampaign(p)].total_budget
     /\ campaigns[AskedCampaign(p)].status = "expired"

\* C27: an update that takes a campaign from targeted to not targeted
\* leaves its target customer set empty.
C27_UntargetingClearsTargets ==
  [][ \A id \in DOMAIN campaigns :
        ( /\ id \in DOMAIN campaigns'
          /\ campaigns[id].is_targeted
          /\ ~campaigns'[id].is_targeted )
        => target_customers'[id] = {}
    ]_vars

\* C25: when an apply commits on a campaign stored as active and not past
\* its end_date, the stored status after the commit is budget_exhausted if
\* and only if the stored used_budget is then >= total_budget, and is still
\* active otherwise.
C25_ExhaustedIffBudgetUsed ==
  [][ \A p \in Procs :
        ( /\ RecordStep(p)
          /\ campaigns[AskedCampaign(p)].status = "active"
          /\ ~(campaigns[AskedCampaign(p)].end_date < now) )
        => LET c == campaigns'[AskedCampaign(p)]
           IN /\ (c.status = "budget_exhausted") <=> (c.used_budget >= c.total_budget)
              /\ c.used_budget < c.total_budget => c.status = "active"
    ]_vars

\* C25 happens: an apply used up exactly the rest of the budget and the
\* campaign is stored as exhausted.
C25_ExhaustedAtExactBudget ==
  \E p \in Procs :
     /\ pc[p] = "done"
     /\ result[p] = "ok"
     /\ campaigns[AskedCampaign(p)].used_budget
          = campaigns[AskedCampaign(p)].total_budget
     /\ campaigns[AskedCampaign(p)].used_budget = LedgerSum(AskedCampaign(p))
     /\ campaigns[AskedCampaign(p)].status = "budget_exhausted"

\* C28: with apply and preview requests only, a campaign stored as
\* budget_exhausted has used_budget >= total_budget.
C28_ExhaustedHasNoBudget ==
  \A id \in DOMAIN campaigns :
     campaigns[id].status = "budget_exhausted"
       => campaigns[id].used_budget >= campaigns[id].total_budget

\* C29: the lazy status recompute, on observation and after an apply, never
\* sets a status to active and leaves a campaign that is inactive, expired
\* or budget_exhausted as it is.
C29_RecomputeOnlyLeavesActive ==
  [][ \A p \in Procs :
        (ObserveStep(p) \/ RecordStep(p)) =>
          LET id == usage'[p].campaign_id
          IN /\ campaigns'[id].status = "active" => campaigns[id].status = "active"
             /\ campaigns[id].status # "active"
                  => campaigns'[id].status = campaigns[id].status
    ]_vars

\* What a preview answers in the current state for the customer, cart_value
\* and delivery_charge of request u: the entries of both lists.
PreviewEntries(u) ==
  IF ~get_customer(u.customer_id) THEN {}
  ELSE ListedIn(available_discounts(
                  get_eligible_campaigns(<<>>, u.customer_id, u.cart_value, "cart", now),
                  u.cart_value))
         \cup
       ListedIn(available_discounts(
                  get_eligible_campaigns(<<>>, u.customer_id, u.delivery_charge,
                                         "delivery", now),
                  u.delivery_charge))

PreviewedFor(u) == { e \in PreviewEntries(u) : e.campaign_id = u.campaign_id }

\* C30: preview and apply agree when nothing changes in between. A preview
\* lists exactly PreviewEntries; an apply whose campaign the preview lists
\* with amount a is judged eligible with amount a and records a row of
\* exactly a; an apply whose campaign the preview does not list fails, at
\* the lookup or at the eligibility check.
C30_PreviewAndApplyAgree ==
  [][ \A p \in Procs :
        /\ PreviewStep(p) =>
             ListedIn(response'[p].cart_discounts)
               \cup ListedIn(response'[p].delivery_discounts) = PreviewEntries(usage'[p])
        /\ LookupStep(p) =>
             ( (PreviewedFor(usage'[p]) # {}) => pc'[p] = "loaded" )
        /\ EligibilityStep(p) =>
             /\ \A e \in PreviewedFor(usage[p]) :
                   pc'[p] = "eligible" /\ amount'[p] = e.discount_amount
             /\ PreviewedFor(usage[p]) = {} =>
                   pc'[p] = "done" /\ result'[p] \in {"not_eligible", "no_discount"}
        /\ RecordStep(p) =>
             /\ result'[p] = "ok"
             /\ Len(discount_usages') = Len(discount_usages) + 1
             /\ NewRow.campaign_id = usage[p].campaign_id
             /\ NewRow.customer_id = usage[p].customer_id
             /\ NewRow.discount_amount = amount[p]
    ]_vars

\* An apply for a delivery campaign, with a delivery charge below the cart
\* value, was judged eligible with the amount a preview lists for it.
C30_ApplyTakesPreviewedAmount ==
  \E p \in Procs :
     /\ pc[p] = "eligible"
     /\ campaigns[AskedCampaign(p)].discount_type = "delivery"
     /\ 0 < usage[p].delivery_charge
     /\ usage[p].delivery_charge < usage[p].cart_value
     /\ \E e \in PreviewedFor(usage[p]) : e.discount_amount = amount[p]

=============================================================================
